---------------------------- MODULE Spec2Model ----------------------------
(***************************************************************************)
(* A model of kitchen/ingredients.py: the helper functions that the        *)
(* command line tool applies to an AnnData object.                         *)
(*                                                                         *)
(* Each function of the source is one section below, with the part of the  *)
(* AnnData object (.X, .layers, .obs, .uns) it reads and writes as state.  *)
(* The sections do not share state, so each has a specification of its     *)
(* own (SpecKnee, SpecSubset, ...) in which the other sections stay idle.  *)
(*                                                                         *)
(* Numbers: counts are naturals; the two float parameters of cellranger2   *)
(* are exact rationals <<numerator, denominator>>, and the threshold is    *)
(* the exact rational [num, den], so comparisons are exact where numpy     *)
(* rounds to a double.                                                     *)
(***************************************************************************)
EXTENDS Integers, Sequences, FiniteSets, TLC

VARIABLES
    knee_adata,     \* cellranger2: the AnnData object [X, obs, uns]
    knee_call,      \* cellranger2: the arguments of the last call, or NoCall
    sub_adata,      \* subset_adata: the caller's AnnData object [obs_names, obs]
    sub_call,       \* subset_adata: the last call [subset, pre], pre the object before it
    sub_ret,        \* subset_adata: what the last call returned or raised
    cc_adata,       \* cc_score: the AnnData object [X, layers, obs, species]
    cc_call,        \* cc_score: the last call [layer, pre], pre the object before it
    cc_ret,         \* cc_score: how the last call ended, and the matrix it scored
    fs,             \* check_dir_exists: what is at each prefix of the path a/b/c
    readonly,       \* check_dir_exists: the directories the process may not write
    dir_call,       \* check_dir_exists: the last call [path, pre], pre = fs before it
    dir_ret,        \* check_dir_exists: how the last call ended
    plot_call,      \* plot_embedding: the arguments of the call [colors, show_clustering, ncols]
    plot_pc,        \* plot_embedding: "idle", "loop" (line 434), "done" or "raised"
    colors,         \* plot_embedding: the local list `colors`
    unique_colors,  \* plot_embedding: the local set `unique_colors`
    n_rows,         \* plot_embedding: rows of the GridSpec
    n_cols,         \* plot_embedding: columns of the GridSpec
    plot_i,         \* plot_embedding: the local `i`, the next grid cell
    plot_pos,       \* plot_embedding: the position of the for loop in `colors`
    drawn,          \* plot_embedding: the plots drawn so far [cell, plot, color]
    dr_adata,       \* dim_reduce: the AnnData object [X, layers, n_obs]
    dr_call,        \* dim_reduce: the call [layer, use_rep, pre], pre the object before it
    dr_pc,          \* dim_reduce: the library step the call is at, "done" or "raised"
    dr_running,     \* dim_reduce: whether the library step at dr_pc is running
    dr_log          \* dim_reduce: the calls into the library and their returns, in order

kneeVars == <<knee_adata, knee_call>>
subVars == <<sub_adata, sub_call, sub_ret>>
ccVars == <<cc_adata, cc_call, cc_ret>>
dirVars == <<fs, readonly, dir_call, dir_ret>>
plotVars ==
    <<plot_call, plot_pc, colors, unique_colors, n_rows, n_cols, plot_i, plot_pos, drawn>>
drVars == <<dr_adata, dr_call, dr_pc, dr_running, dr_log>>

vars == <<kneeVars, subVars, ccVars, dirVars, plotVars, drVars>>

NoCall == [fn |-> "none"]

Min(a, b) == IF a < b THEN a ELSE b

Range(s) == {s[i] : i \in 1..Len(s)}

SeqsUpTo(S, n) == UNION {[1..k -> S] : k \in 0..n}

(***************************************************************************)
(* cellranger2 (ingredients.py 239-263)                                    *)
(***************************************************************************)

\* Bounds of the cellranger2 section.
MaxCells == 3
MaxCount == 2
MaxExpected == 2

\* The default of the parameter `expected`.
DefaultExpected == 1500

\* The columns of adata.X.
Genes == {"g1"}

\* upper_quant and lower_prop as rationals; 99/100 and 1/10 are the defaults.
Quantiles == {<<1, 2>>, <<99, 100>>, <<1, 1>>}
Props == {<<1, 10>>, <<1, 2>>, <<1, 1>>}

RECURSIVE SumOver(_, _)
SumOver(row, genes) ==
    IF genes = {} THEN 0
    ELSE LET g == CHOOSE x \in genes : TRUE
         IN  row[g] + SumOver(row, genes \ {g})

\* adata.X.sum(axis=1)
RowSums(X) == [i \in 1..Len(X) |-> SumOver(X[i], Genes)]

RECURSIVE Insert(_, _)
Insert(x, s) ==
    IF s = <<>> THEN <<x>>
    ELSE IF x <= Head(s) THEN <<x>> \o s
    ELSE <<Head(s)>> \o Insert(x, Tail(s))

\* np.sort: ascending
RECURSIVE np_sort(_)
np_sort(s) == IF s = <<>> THEN <<>> ELSE Insert(Head(s), np_sort(Tail(s)))

\* s[::-1]
Reversed(s) == [i \in 1..Len(s) |-> s[Len(s) + 1 - i]]

\* s[0:k] for k >= 0: a slice past the end stops at the end
SliceTo(s, k) == SubSeq(s, 1, Min(k, Len(s)))

\* np.quantile(arr, q), the default linear interpolation, arr not empty:
\* the value at the virtual index q * (len - 1) of the sorted array,
\* as the rational [num, den].
np_quantile(arr, q) ==
    LET a   == np_sort(arr)
        m   == Len(a)
        pos == q[1] * (m - 1)
        lo  == pos \div q[2]
        r   == pos % q[2]
        hi  == Min(lo + 1, m - 1)
    IN  [num |-> a[lo + 1] * q[2] + r * (a[hi + 1] - a[lo + 1]), den |-> q[2]]

\* thresh = np.quantile(tmp[0:expected], upper_quant) * lower_prop
KneeThresh(total_counts, expected, upper_quant, lower_prop) ==
    LET tmp == Reversed(np_sort(total_counts))
        qv  == np_quantile(SliceTo(tmp, expected), upper_quant)
    IN  [num |-> qv.num * lower_prop[1], den |-> qv.den * lower_prop[2]]

\* A cell on the threshold counted as above it.
AboveThreshOrOn(count, thresh) == count * thresh.den >= thresh.num

\* adata.obs.total_counts > thresh, for one cell
AboveThresh(count, thresh) == count * thresh.den > thresh.num

\* obs["knee_point"] = 0; obs.loc[obs.total_counts > thresh, "knee_point"] = 1
KneeLabels(total_counts, thresh) ==
    [i \in 1..Len(total_counts) |->
        IF AboveThresh(total_counts[i], thresh) THEN 1 ELSE 0]

\* obs with column `col` set to `values` (added when it is not there)
WithColumn(obs, col, values) ==
    [c \in DOMAIN obs \cup {col} |-> IF c = col THEN values ELSE obs[c]]

KneeInit ==
    /\ knee_call = NoCall
    /\ \E n \in 1..MaxCells :
          \/ \E X \in [1..n -> [Genes -> 0..MaxCount]] :
                knee_adata = [X |-> X, obs |-> <<>>, uns |-> <<>>]
          \/ \E tc \in [1..n -> 0..MaxCount] :
                knee_adata =
                    [X   |-> [i \in 1..n |-> [g \in Genes |-> 0]],
                     obs |-> [c \in {"total_counts"} |-> tc],
                     uns |-> <<>>]

KneeIdle ==
    /\ knee_call = NoCall
    /\ knee_adata = [X |-> <<>>, obs |-> <<>>, uns |-> <<>>]

cellranger2(expected, upper_quant, lower_prop) ==
    LET obs1   == IF "total_counts" \in DOMAIN knee_adata.obs
                  THEN knee_adata.obs
                  ELSE WithColumn(knee_adata.obs, "total_counts",
                                  RowSums(knee_adata.X))
        thresh == KneeThresh(obs1["total_counts"], expected, upper_quant,
                             lower_prop)
        obs2   == WithColumn(obs1, "knee_point",
                             KneeLabels(obs1["total_counts"], thresh))
    IN  /\ knee_adata' = [X   |-> knee_adata.X,
                          obs |-> obs2,
                          uns |-> [k \in DOMAIN knee_adata.uns \cup {"knee_thresh"} |->
                                     IF k = "knee_thresh" THEN thresh
                                     ELSE knee_adata.uns[k]]]
        /\ knee_call' = [fn |-> "cellranger2", expected |-> expected,
                         upper_quant |-> upper_quant, lower_prop |-> lower_prop]
        /\ UNCHANGED <<subVars, ccVars, dirVars, plotVars, drVars>>

KneeDone == knee_call.fn = "cellranger2"

\* The k-th smallest value (k = 0 the smallest) of the values of s.
OrderStat(s, k) ==
    CHOOSE v \in Range(s) :
        /\ Cardinality({i \in 1..Len(s) : s[i] < v}) <= k
        /\ k < Cardinality({i \in 1..Len(s) : s[i] <= v})

\* C1: after cellranger2(adata, expected, upper_quant, lower_prop) every cell
\* has knee_point in {0, 1}; a cell is labelled 1 exactly when its
\* total_counts is strictly greater than uns["knee_thresh"] (so a cell whose
\* total_counts equals the threshold is labelled 0); and the threshold is
\* lower_prop times the upper_quant quantile (linear interpolation) of the
\* `expected` largest total_counts, of all of them when there are fewer.
C1_KneePoint ==
    KneeDone =>
        LET obs == knee_adata.obs
            tc  == obs["total_counts"]
            kp  == obs["knee_point"]
            t   == knee_adata.uns["knee_thresh"]
            q   == knee_call.upper_quant
            p   == knee_call.lower_prop
            n   == Len(tc)
            m   == IF knee_call.expected < n THEN knee_call.expected ELSE n
            pos == q[1] * (m - 1)
            lo  == pos \div q[2]
            hi  == IF lo + 1 < m THEN lo + 1 ELSE m - 1
            \* the m largest values, ascending, are the order statistics
            \* n - m, ..., n - 1 of all the values
            vlo == OrderStat(tc, n - m + lo)
            vhi == OrderStat(tc, n - m + hi)
        IN  /\ DOMAIN kp = 1..n
            /\ \A i \in 1..n :
                  /\ kp[i] \in {0, 1}
                  /\ kp[i] = 1 <=> tc[i] * t.den > t.num
                  /\ tc[i] * t.den = t.num => kp[i] = 0
            /\ t.den > 0
            \* t = p * (vlo + (pos / q[2] - lo) * (vhi - vlo))
            /\ t.num * q[2] * p[2]
                 = t.den * p[1] * (vlo * q[2] + (pos - lo * q[2]) * (vhi - vlo))

\* Witness of C1: a call with fewer expected cells than cells, after which
\* one cell lies exactly on the threshold and another above it.
C1_Witness ==
    /\ KneeDone
    /\ knee_call.expected < Len(knee_adata.obs["total_counts"])
    /\ LET tc == knee_adata.obs["total_counts"]
           kp == knee_adata.obs["knee_point"]
           t  == knee_adata.uns["knee_thresh"]
       IN  /\ \E i \in 1..Len(tc) : tc[i] * t.den = t.num /\ tc[i] > 0 /\ kp[i] = 0
           /\ \E i \in 1..Len(tc) : kp[i] = 1


KneeNext ==
    \E expected \in (1..MaxExpected) \cup {DefaultExpected},
       upper_quant \in Quantiles, lower_prop \in Props :
        cellranger2(expected, upper_quant, lower_prop)

(***************************************************************************)
(* subset_adata (ingredients.py 266-285)                                   *)
(***************************************************************************)

\* Bounds of the subset_adata section.
MaxSubCells == 2
MaxSubsetLen == 2

\* The column the function uses for the union of the labels.
Combined == "adata_subset_combined"

UserColumns == {"a", "b"}

\* Values of a label column: 0/False, 1/True, and 2 for any other value.
LabelValues == {0, 1, 2}

NoRet == [kind |-> "none"]

\* The `subset` argument: one column name, or a list of column names.
SubsetArgs ==
    {[kind |-> "str", name |-> c] : c \in UserColumns \cup {Combined}}
    \cup {[kind |-> "list", names |-> l] :
             l \in SeqsUpTo(UserColumns \cup {Combined}, MaxSubsetLen)}

\* if isinstance(subset, str): subset = [subset]
SubsetList(subset) ==
    IF subset.kind = "str" THEN <<subset.name>> ELSE subset.names

\* adata.obs.loc[adata.obs[name] == 1, "adata_subset_combined"] = 1
MarkLabel(obs, name) ==
    WithColumn(obs, Combined,
               [c \in DOMAIN obs[Combined] |->
                   IF obs[name][c] = 1 THEN 1 ELSE obs[Combined][c]])

\* for i in range(len(subset)): ..., from position i on; obs[subset[i]] of a
\* column that is not there raises KeyError and leaves obs as it is by then.
RECURSIVE UnionLoop(_, _, _)
UnionLoop(obs, names, i) ==
    IF i > Len(names) THEN [obs |-> obs, raised |-> FALSE]
    ELSE IF names[i] \notin DOMAIN obs THEN [obs |-> obs, raised |-> TRUE]
    ELSE UnionLoop(MarkLabel(obs, names[i]), names, i + 1)

\* The rows of `col` whose mask is 1, in order.
RECURSIVE KeepRows(_, _)
KeepRows(col, mask) ==
    IF col = <<>> THEN <<>>
    ELSE (IF Head(mask) = 1 THEN <<Head(col)>> ELSE <<>>)
         \o KeepRows(Tail(col), Tail(mask))

\* adata[adata.obs["adata_subset_combined"] == 1, :].copy(), then
\* .obs.drop(columns="adata_subset_combined")
SubsetCopy(adata) ==
    LET mask == adata.obs[Combined]
    IN  [obs_names |-> KeepRows(adata.obs_names, mask),
         obs |-> [c \in DOMAIN adata.obs \ {Combined} |->
                     KeepRows(adata.obs[c], mask)]]

SubInit ==
    /\ sub_call = NoCall
    /\ sub_ret = NoRet
    /\ \E n \in 0..MaxSubCells, cols \in {{"a"}, {"a", "b"}} :
          \E obs \in [cols -> [1..n -> LabelValues]] :
              sub_adata = [obs_names |-> [i \in 1..n |-> i], obs |-> obs]

SubIdle ==
    /\ sub_call = NoCall
    /\ sub_ret = NoRet
    /\ sub_adata = [obs_names |-> <<>>, obs |-> <<>>]

subset_adata(subset) ==
    LET names == SubsetList(subset)
        n     == Len(sub_adata.obs_names)
        obs0  == WithColumn(sub_adata.obs, Combined, [c \in 1..n |-> 0])
        loop  == UnionLoop(obs0, names, 1)
        after == [obs_names |-> sub_adata.obs_names, obs |-> loop.obs]
    IN  /\ sub_call' = [fn |-> "subset_adata", subset |-> subset, pre |-> sub_adata]
        /\ sub_adata' = after
        /\ sub_ret' = IF loop.raised THEN [kind |-> "raised", error |-> "KeyError"]
                      ELSE [kind |-> "returned", adata |-> SubsetCopy(after)]
        /\ UNCHANGED <<kneeVars, ccVars, dirVars, plotVars, drVars>>

SubReturned == sub_call.fn = "subset_adata" /\ sub_ret.kind = "returned"

\* The cells of the object before the call that carry one of the labels named
\* in the call: some column named in `subset` is there and holds 1 for the cell.
SubLabelled ==
    LET pre   == sub_call.pre
        named == IF sub_call.subset.kind = "str" THEN {sub_call.subset.name}
                 ELSE Range(sub_call.subset.names)
    IN  {i \in 1..Len(pre.obs_names) :
            \E c \in named \cap DOMAIN pre.obs : pre.obs[c][i] = 1}

\* The returned object holds exactly the cells `cells` (positions of the
\* object before the call), in their original order, and has no
\* "adata_subset_combined" column.
SubReturnsExactly(cells) ==
    LET pre == sub_call.pre
        ret == sub_ret.adata
    IN  /\ Len(ret.obs_names) = Cardinality(cells)
        /\ Range(ret.obs_names) = {pre.obs_names[i] : i \in cells}
        /\ \A j, k \in 1..Len(ret.obs_names) :
              j < k => ret.obs_names[j] < ret.obs_names[k]
        /\ Combined \notin DOMAIN ret.obs

\* C2: subset_adata(adata, subset) returns exactly the cells of adata for
\* which at least one of the .obs columns named in subset equals 1, in their
\* original order, without an "adata_subset_combined" column; a single name
\* given as a string counts as the one-element list of that name.
C2_SubsetUnion == SubReturned => SubReturnsExactly(SubLabelled)

\* C2 as the code has it: the column "adata_subset_combined" is reset before
\* the labels are read, so naming it in `subset` adds no cell; the cells
\* returned are those labelled by the other columns named.
SubLabelledByOthers ==
    LET pre   == sub_call.pre
        named == Range(SubsetList(sub_call.subset)) \ {Combined}
    IN  {i \in 1..Len(pre.obs_names) :
            \E c \in named \cap DOMAIN pre.obs : pre.obs[c][i] = 1}

C2_SubsetUnionOfOtherColumns ==
    SubReturned => SubReturnsExactly(SubLabelledByOthers)

SubNext == \E subset \in SubsetArgs : subset_adata(subset)

(***************************************************************************)
(* cc_score (ingredients.py 288-325)                                       *)
(***************************************************************************)

\* layer=None
None == "None"

\* The keys adata.layers may hold, and a key it never holds.
LayerKeys == {"temp", "arcsinh_norm"}
MissingLayer == "missing"

\* The matrices .X and the layers may hold.
Matrices == {"M1", "M2", "M3"}

\* What the gene names look like: human, mouse, or neither.
Species == {"human", "mouse", "neither"}

ScoreColumns == {"G2M_score", "S_score", "phase"}

\* layers with layers[key] = m
WithLayer(layers, key, m) ==
    [k \in DOMAIN layers \cup {key} |-> IF k = key THEN m ELSE layers[k]]

\* del layers[key]
WithoutLayer(layers, key) == [k \in DOMAIN layers \ {key} |-> layers[k]]

CcInit ==
    /\ cc_call = NoCall
    /\ cc_ret = NoRet
    /\ \E X \in Matrices, keys \in SUBSET LayerKeys, species \in Species :
          \E layers \in [keys -> Matrices] :
              cc_adata = [X |-> X, layers |-> layers, obs |-> {},
                          species |-> species]

CcIdle ==
    /\ cc_call = NoCall
    /\ cc_ret = NoRet
    /\ cc_adata = [X |-> "M1", layers |-> <<>>, obs |-> {}, species |-> "human"]

\* lines 303-305: adata.layers["temp"] = adata.X.copy();
\* adata.X = adata.layers[layer].copy(), a KeyError when the layer is not there
CcSwapIn(adata, layer) ==
    LET layers1 == WithLayer(adata.layers, "temp", adata.X)
    IN  IF layer = None THEN [adata |-> adata, raised |-> FALSE]
        ELSE IF layer \notin DOMAIN layers1
        THEN [adata |-> [adata EXCEPT !.layers = layers1], raised |-> TRUE]
        ELSE [adata |-> [adata EXCEPT !.layers = layers1, !.X = layers1[layer]],
              raised |-> FALSE]

\* lines 323-325: adata.X = adata.layers["temp"].copy(); del adata.layers["temp"]
CcSwapOut(adata, layer) ==
    IF layer = None THEN adata
    ELSE [adata EXCEPT !.X = adata.layers["temp"],
                       !.layers = WithoutLayer(adata.layers, "temp")]

\* One call of cc_score. scoring_ok: whether sc.tl.score_genes_cell_cycle
\* returns (it adds the three columns to .obs) or raises.
cc_score(layer, scoring_ok) ==
    LET swapped == CcSwapIn(cc_adata, layer)
        a1      == swapped.adata
        scored  == [a1 EXCEPT !.obs = a1.obs \cup ScoreColumns]
    IN  /\ cc_call' = [fn |-> "cc_score", layer |-> layer, pre |-> cc_adata]
        /\ IF swapped.raised
           THEN /\ cc_adata' = a1
                /\ cc_ret' = [kind |-> "raised", error |-> "KeyError"]
           ELSE IF a1.species = "neither"
           \* neither branch of lines 312-315 binds s_genes
           THEN /\ cc_adata' = a1
                /\ cc_ret' = [kind |-> "raised", error |-> "UnboundLocalError"]
           ELSE IF ~scoring_ok
           THEN /\ cc_adata' = a1
                /\ cc_ret' = [kind |-> "raised", error |-> "scanpy"]
           ELSE /\ cc_adata' = CcSwapOut(scored, layer)
                /\ cc_ret' = [kind |-> "returned", scored_on |-> a1.X]
        /\ UNCHANGED <<kneeVars, subVars, dirVars, plotVars, drVars>>

CcReturned == cc_call.fn = "cc_score" /\ cc_ret.kind = "returned"

\* C3: when cc_score(adata, layer=L) returns normally with L not None, the
\* only change to adata is the addition of 'G2M_score', 'S_score' and 'phase'
\* to .obs: .X is as before the call and .layers holds the same keys and
\* values as before the call (no "temp" layer is added, and a "temp" layer
\* that was there before the call is still there unchanged).
C3_OnlyObsChanges ==
    (CcReturned /\ cc_call.layer # None) =>
        /\ cc_adata.X = cc_call.pre.X
        /\ cc_adata.layers = cc_call.pre.layers
        /\ cc_adata.obs = cc_call.pre.obs \cup ScoreColumns

\* C3 as the code has it: .X and .obs are as claimed, no "temp" layer is
\* left, and every other layer is unchanged; a "temp" layer that was there
\* before the call is gone.
C3_OnlyObsAndTempChange ==
    (CcReturned /\ cc_call.layer # None) =>
        /\ cc_adata.X = cc_call.pre.X
        /\ cc_adata.layers = WithoutLayer(cc_call.pre.layers, "temp")
        /\ cc_adata.obs = cc_call.pre.obs \cup ScoreColumns

CcNext ==
    \E layer \in LayerKeys \cup {MissingLayer, None}, scoring_ok \in BOOLEAN :
        cc_score(layer, scoring_ok)

(***************************************************************************)
(* check_dir_exists (ingredients.py 220-228)                               *)
(*                                                                         *)
(* The file system is one chain of names, a, a/b, a/b/c, ...: fs[d] says   *)
(* what is at the prefix of d names; prefix 0 is the directory the chain   *)
(* starts in, which is always there.                                       *)
(***************************************************************************)

\* The longest path of the check_dir_exists section.
MaxDepth == 3

Status == {"absent", "dir", "file"}

\* Nothing is below what is absent or a file.
WellFormed(f) ==
    \A d \in 2..MaxDepth : f[d - 1] # "dir" => f[d] = "absent"

\* os.mkdir(path), path the prefix of d names: the errno it fails with, or
\* "OK" and the directory is made.
os_mkdir(f, ro, d) ==
    IF d > 1 /\ f[d - 1] = "absent" THEN [fs |-> f, errno |-> "ENOENT"]
    ELSE IF d > 1 /\ f[d - 1] = "file" THEN [fs |-> f, errno |-> "ENOTDIR"]
    ELSE IF f[d] # "absent" THEN [fs |-> f, errno |-> "EEXIST"]
    ELSE IF (d - 1) \in ro THEN [fs |-> f, errno |-> "EACCES"]
    ELSE [fs |-> [f EXCEPT ![d] = "dir"], errno |-> "OK"]

\* os.makedirs(path): makes the missing directories above path, top down,
\* then path itself; a FileExistsError from the directories above is passed
\* over, any other error ends the call.
RECURSIVE os_makedirs(_, _, _)
os_makedirs(f, ro, d) ==
    LET above == IF d > 1 /\ f[d - 1] = "absent"
                 THEN os_makedirs(f, ro, d - 1)
                 ELSE [fs |-> f, errno |-> "OK"]
    IN  IF above.errno \notin {"OK", "EEXIST"} THEN above
        ELSE os_mkdir(above.fs, ro, d)

\* except OSError as exception: if exception.errno != errno.EEXIST: raise
Swallowed(errno) == errno = "EEXIST"

DirInit ==
    /\ dir_call = NoCall
    /\ dir_ret = NoRet
    /\ fs \in [1..MaxDepth -> Status]
    /\ WellFormed(fs)
    /\ readonly \in SUBSET (0..(MaxDepth - 1))
    /\ \A d \in readonly : IF d = 0 THEN TRUE ELSE fs[d] = "dir"

DirIdle ==
    /\ dir_call = NoCall
    /\ dir_ret = NoRet
    /\ fs = [d \in 1..MaxDepth |-> "absent"]
    /\ readonly = {}

check_dir_exists(path) ==
    LET made == os_makedirs(fs, readonly, path)
    IN  /\ dir_call' = [fn |-> "check_dir_exists", path |-> path, pre |-> fs]
        /\ fs' = made.fs
        /\ dir_ret' = IF made.errno = "OK" \/ Swallowed(made.errno)
                      THEN [kind |-> "returned"]
                      ELSE [kind |-> "raised", error |-> made.errno]
        /\ UNCHANGED <<readonly, kneeVars, subVars, ccVars, plotVars, drVars>>

DirCalled == dir_call.fn = "check_dir_exists"

\* C4: check_dir_exists(path) creates the directory when it does not exist;
\* returns without error and without changing anything when the directory
\* already exists; raises only an OSError whose errno is not EEXIST; and
\* whenever it returns normally, path is an existing directory.
C4_DirExistsAfter ==
    DirCalled =>
        /\ (dir_call.pre[dir_call.path] = "dir" =>
               dir_ret.kind = "returned" /\ fs = dir_call.pre)
        /\ (dir_ret.kind = "raised" =>
               dir_ret.error # "EEXIST" /\ fs[dir_call.path] # "dir")
        /\ (dir_ret.kind = "returned" => fs[dir_call.path] = "dir")

\* C4 as the code has it: after a normal return the path exists, as a
\* directory or, when a file of that name was there before the call, as that
\* file; the rest of the claim holds.
C4_PathExistsAfter ==
    DirCalled =>
        /\ (dir_call.pre[dir_call.path] = "dir" =>
               dir_ret.kind = "returned" /\ fs = dir_call.pre)
        /\ (dir_ret.kind = "raised" =>
               dir_ret.error # "EEXIST" /\ fs[dir_call.path] # "dir")
        /\ (dir_ret.kind = "returned" =>
               \/ fs[dir_call.path] = "dir"
               \/ dir_call.pre[dir_call.path] = "file" /\ fs = dir_call.pre)

DirNext == \E path \in 1..MaxDepth : check_dir_exists(path)

(***************************************************************************)
(* plot_embedding (ingredients.py 392-475) and list_union (231-236)        *)
(***************************************************************************)

\* Bounds of the plot_embedding section.
MaxColors == 3
MaxNcols == 2

\* The default of the parameter `ncols`.
DefaultNcols == 4

\* What the caller may put in `colors`.
Palette == {"paga", "PAGA", "leiden", "n_genes"}

\* str.lower() on the palette
Lower(color) == IF color = "PAGA" THEN "paga" ELSE color

\* list_union(lst1, lst2): set(lst1).union(set(lst2))
list_union(lst1, lst2) == Range(lst1) \cup Range(lst2)

\* ceil(a / b), b > 0
Ceil(a, b) == (a + b - 1) \div b

PlotIdle ==
    /\ plot_call = NoCall
    /\ plot_pc = "idle"
    /\ colors = <<>>
    /\ unique_colors = {}
    /\ n_rows = 0
    /\ n_cols = 0
    /\ plot_i = 0
    /\ plot_pos = 1
    /\ drawn = <<>>

\* Lines 410-433: the list and the set of overlays, the size of the grid.
\* ceil(n_plots / ncols) divides by zero when ncols is 0, and GridSpec takes
\* no grid without rows or columns.
plot_embedding(colors_arg, show_clustering, ncols) ==
    LET cs == IF colors_arg.given
              THEN (IF show_clustering THEN <<"paga", "leiden">> \o colors_arg.list
                    ELSE colors_arg.list)
              ELSE <<"paga", "leiden">>
        us == IF colors_arg.given /\ show_clustering
              THEN list_union(<<"paga", "leiden">>, cs)
              ELSE Range(cs)
        n_plots == Cardinality(us)
        rows == IF n_plots <= ncols THEN 1 ELSE Ceil(n_plots, ncols)
        cols == IF n_plots <= ncols THEN n_plots ELSE ncols
    IN  /\ plot_pc # "loop"
        /\ plot_call' = [fn |-> "plot_embedding", colors |-> colors_arg,
                         show_clustering |-> show_clustering, ncols |-> ncols]
        /\ colors' = cs
        /\ unique_colors' = us
        /\ plot_i' = 0
        /\ plot_pos' = 1
        /\ drawn' = <<>>
        /\ IF n_plots > ncols /\ ncols = 0
           THEN /\ plot_pc' = "raised"
                /\ n_rows' = 0
                /\ n_cols' = 0
           ELSE /\ n_rows' = rows
                /\ n_cols' = cols
                /\ plot_pc' = IF rows < 1 \/ cols < 1 THEN "raised" ELSE "loop"
        /\ UNCHANGED <<kneeVars, subVars, ccVars, dirVars, drVars>>

\* Lines 434-468, one round of `for color in colors`: an overlay still in
\* unique_colors is drawn on grid cell i (gs[i] raises IndexError past the
\* grid), sc.pl.paga for "paga" in any case, sc.pl.umap for the rest.
PlotRound ==
    /\ plot_pc = "loop"
    /\ plot_pos <= Len(colors)
    /\ LET color == colors[plot_pos]
       IN  IF color \in unique_colors
           THEN IF plot_i >= n_rows * n_cols
                THEN /\ plot_pc' = "raised"
                     /\ UNCHANGED <<unique_colors, plot_i, plot_pos, drawn>>
                ELSE /\ drawn' = Append(drawn,
                            [cell |-> plot_i,
                             plot |-> IF Lower(color) = "paga" THEN "paga" ELSE "umap",
                             color |-> color])
                     /\ unique_colors' = unique_colors \ {color}
                     /\ plot_i' = plot_i + 1
                     /\ plot_pos' = plot_pos + 1
                     /\ UNCHANGED plot_pc
           ELSE /\ plot_pos' = plot_pos + 1
                /\ UNCHANGED <<plot_pc, unique_colors, plot_i, drawn>>
    /\ UNCHANGED <<plot_call, colors, n_rows, n_cols>>
    /\ UNCHANGED <<kneeVars, subVars, ccVars, dirVars, drVars>>

\* Lines 469-475: the loop is over; the figure is laid out and shown or saved.
PlotShow ==
    /\ plot_pc = "loop"
    /\ plot_pos > Len(colors)
    /\ plot_pc' = "done"
    /\ UNCHANGED <<plot_call, colors, unique_colors, n_rows, n_cols, plot_i, plot_pos, drawn>>
    /\ UNCHANGED <<kneeVars, subVars, ccVars, dirVars, drVars>>

\* The `colors` argument: a list, or None (given = FALSE).
ColorsArgs ==
    {[given |-> TRUE, list |-> l] : l \in SeqsUpTo(Palette, MaxColors)}
    \cup {[given |-> FALSE, list |-> <<>>]}

PlotNext ==
    \/ \E colors_arg \in ColorsArgs, show_clustering \in BOOLEAN,
          ncols \in (0..MaxNcols) \cup {DefaultNcols} :
            plot_embedding(colors_arg, show_clustering, ncols)
    \/ PlotRound
    \/ PlotShow

\* The position of the first occurrence of c in the list s.
FirstIndex(s, c) == CHOOSE k \in 1..Len(s) : s[k] = c /\ \A j \in 1..(k - 1) : s[j] # c

\* The plots drawn of the kind `plot` ("paga": the PAGA graph).
DrawnOf(plot) == {k \in 1..Len(drawn) : drawn[k].plot = plot}

\* Every distinct entry of the list of overlays is drawn exactly once, on the
\* grid cells 0, 1, 2, ... in the order of first occurrence.
PlotEachOnceInOrder ==
    /\ Len(drawn) = Cardinality(Range(colors))
    /\ \A c \in Range(colors) :
          Cardinality({k \in 1..Len(drawn) : drawn[k].color = c}) = 1
    /\ \A k \in 1..Len(drawn) : drawn[k].cell = k - 1
    /\ \A j, k \in 1..Len(drawn) :
          j < k => FirstIndex(colors, drawn[j].color) < FirstIndex(colors, drawn[k].color)

\* The grid has at least as many cells as there are plots: one row when the
\* plots are at most ncols, else ceil(n_plots / ncols) rows of ncols columns.
PlotGridFits ==
    LET n_plots == Cardinality(Range(colors))
        ncols   == plot_call.ncols
    IN  /\ n_rows * n_cols >= n_plots
        /\ n_plots <= ncols => n_rows = 1
        /\ n_plots > ncols =>
              /\ n_cols = ncols
              /\ n_rows * ncols >= n_plots
              /\ (n_rows - 1) * ncols < n_plots

\* C5: every distinct overlay is drawn exactly once, on consecutive grid cells
\* in order of first occurrence; the grid always has at least as many cells
\* as there are plots (one row up to ncols plots, ceil(n_plots / ncols) rows
\* of ncols columns beyond); and with show_clustering the PAGA graph is drawn
\* on the first cell and the leiden clusters on the second, each of the two
\* only once, whatever the caller's list of colors holds.
C5_EachOverlayOnce ==
    /\ plot_pc \in {"loop", "done"} => PlotGridFits
    /\ plot_pc = "done" =>
          /\ PlotEachOnceInOrder
          /\ plot_call.show_clustering =>
                /\ drawn[1] = [cell |-> 0, plot |-> "paga", color |-> "paga"]
                /\ drawn[2] = [cell |-> 1, plot |-> "umap", color |-> "leiden"]
                /\ Cardinality(DrawnOf("paga")) = 1
                /\ Cardinality({k \in 1..Len(drawn) : drawn[k].color = "leiden"}) = 1

\* C5 as the code has it: the entries "paga" and "leiden" are each drawn
\* once, on the first two cells, but the PAGA graph is drawn once for every
\* spelling of "paga" in the list, so an entry "PAGA" draws it again.
C5_EachEntryOnce ==
    /\ plot_pc \in {"loop", "done"} => PlotGridFits
    /\ plot_pc = "done" =>
          /\ PlotEachOnceInOrder
          /\ plot_call.show_clustering =>
                /\ drawn[1] = [cell |-> 0, plot |-> "paga", color |-> "paga"]
                /\ drawn[2] = [cell |-> 1, plot |-> "umap", color |-> "leiden"]
                /\ Cardinality(DrawnOf("paga"))
                     = Cardinality({c \in Range(colors) : Lower(c) = "paga"})
                /\ Cardinality({k \in 1..Len(drawn) : drawn[k].color = "leiden"}) = 1

(***************************************************************************)
(* dim_reduce (ingredients.py 328-389)                                     *)
(***************************************************************************)

\* The most cells of the dim_reduce section.
MaxObs == 10

\* The .obsm key given as use_rep.
UseReps == {"X_cnmf"}

\* The largest k from k0 on with k * k <= n: int(np.sqrt(n)), the square root
\* cut to an integer.
RECURSIVE SqrtFrom(_, _)
SqrtFrom(n, k0) == IF (k0 + 1) * (k0 + 1) > n THEN k0 ELSE SqrtFrom(n, k0 + 1)

\* n_neighbors=int(np.sqrt(adata.n_obs))
NNeighbors(n_obs) == SqrtFrom(n_obs, 0)

\* The steps with PAGA moved before the Leiden clustering.
DrNextStepPagaFirst(step) ==
    CASE step = "pca" -> "neighbors"
      [] step = "neighbors" -> "paga"
      [] step = "paga" -> "pl_paga"
      [] step = "pl_paga" -> "leiden"
      [] step = "leiden" -> "umap"
      [] step = "umap" -> "done"

\* The library step that follows `step` in the body of dim_reduce:
\* sc.pp.pca (358), sc.pp.neighbors (359 or 369), sc.tl.leiden (378),
\* sc.tl.paga (387), sc.pl.paga (388), sc.tl.umap (389).
DrNextStep(step) ==
    CASE step = "pca" -> "neighbors"
      [] step = "neighbors" -> "leiden"
      [] step = "leiden" -> "paga"
      [] step = "paga" -> "pl_paga"
      [] step = "pl_paga" -> "umap"
      [] step = "umap" -> "done"

\* The first library step: PCA when use_rep is None (line 347).
DrFirstStep(use_rep) == IF use_rep = None THEN "pca" ELSE "neighbors"

DrSteps == {"pca", "neighbors", "leiden", "paga", "pl_paga", "umap"}

\* The arguments dim_reduce passes to the step.
DrStepArgs(step) ==
    IF step = "neighbors"
    THEN [n_neighbors |-> NNeighbors(dr_adata.n_obs),
          use_rep |-> dr_call.use_rep,
          n_pcs |-> IF dr_call.use_rep = None THEN 20 ELSE 0]
    ELSE IF step = "pca" THEN [n_comps |-> 50]
    ELSE <<>>

DrInit ==
    /\ dr_call = NoCall
    /\ dr_pc = "idle"
    /\ dr_running = FALSE
    /\ dr_log = <<>>
    /\ \E X \in Matrices, keys \in SUBSET {"arcsinh_norm"}, n_obs \in 0..MaxObs :
          \E layers \in [keys -> Matrices] :
              dr_adata = [X |-> X, layers |-> layers, n_obs |-> n_obs]

DrIdle ==
    /\ dr_call = NoCall
    /\ dr_pc = "idle"
    /\ dr_running = FALSE
    /\ dr_log = <<>>
    /\ dr_adata = [X |-> "M1", layers |-> <<>>, n_obs |-> 0]

\* Lines 347-351: the call, up to the first library step. With use_rep None
\* and a layer given, adata.X = adata.layers[layer].copy(), a KeyError when
\* the layer is not there.
dim_reduce(layer, use_rep) ==
    /\ dr_pc \in {"idle", "done", "raised"}
    /\ dr_call' = [fn |-> "dim_reduce", layer |-> layer, use_rep |-> use_rep,
                   pre |-> dr_adata]
    /\ dr_log' = <<>>
    /\ dr_running' = FALSE
    /\ IF use_rep = None /\ layer # None
       THEN IF layer \in DOMAIN dr_adata.layers
            THEN /\ dr_adata' = [dr_adata EXCEPT !.X = dr_adata.layers[layer]]
                 /\ dr_pc' = DrFirstStep(use_rep)
            ELSE /\ dr_pc' = "raised"
                 /\ UNCHANGED dr_adata
       ELSE /\ dr_pc' = DrFirstStep(use_rep)
            /\ UNCHANGED dr_adata
    /\ UNCHANGED <<kneeVars, subVars, ccVars, dirVars, plotVars>>

\* The library step at dr_pc is called.
DrStepCall ==
    /\ dr_pc \in DrSteps
    /\ ~dr_running
    /\ dr_running' = TRUE
    /\ dr_log' = Append(dr_log, [event |-> "call", step |-> dr_pc,
                                 args |-> DrStepArgs(dr_pc)])
    /\ UNCHANGED <<dr_adata, dr_call, dr_pc>>
    /\ UNCHANGED <<kneeVars, subVars, ccVars, dirVars, plotVars>>

\* The running library step returns; dim_reduce goes on to the next one.
DrStepReturn ==
    /\ dr_pc \in DrSteps
    /\ dr_running
    /\ dr_running' = FALSE
    /\ dr_log' = Append(dr_log, [event |-> "return", step |-> dr_pc, args |-> <<>>])
    /\ dr_pc' = DrNextStep(dr_pc)
    /\ UNCHANGED <<dr_adata, dr_call>>
    /\ UNCHANGED <<kneeVars, subVars, ccVars, dirVars, plotVars>>

\* The running library step raises; dim_reduce catches nothing.
DrStepRaise ==
    /\ dr_pc \in DrSteps
    /\ dr_running
    /\ dr_running' = FALSE
    /\ dr_log' = Append(dr_log, [event |-> "raise", step |-> dr_pc, args |-> <<>>])
    /\ dr_pc' = "raised"
    /\ UNCHANGED <<dr_adata, dr_call>>
    /\ UNCHANGED <<kneeVars, subVars, ccVars, dirVars, plotVars>>

DrNext ==
    \/ \E layer \in {None, "arcsinh_norm", MissingLayer},
          use_rep \in UseReps \cup {None} :
            dim_reduce(layer, use_rep)
    \/ DrStepCall
    \/ DrStepReturn
    \/ DrStepRaise

DrCalled == dr_call.fn = "dim_reduce"

\* The library steps called so far, in order.
DrCalls == SelectSeq(dr_log, LAMBDA e : e.event = "call")

\* The order the claim gives; sc.pl.paga, which draws the PAGA graph that
\* UMAP starts from, is the second half of the PAGA step.
DrOrder(use_rep) ==
    (IF use_rep = None THEN <<"pca">> ELSE <<>>)
    \o <<"neighbors", "leiden", "paga", "pl_paga", "umap">>

\* C6: in every run of dim_reduce the library steps happen in the order
\* [PCA,] neighbors, Leiden, PAGA, UMAP, each starting only after the one
\* before it has returned; PCA runs if and only if use_rep is None, and then
\* adata.X is replaced by the given layer (when one is given); with use_rep
\* given, layer has no effect and adata.X is unchanged; and in both branches
\* the neighbors graph is built with n_neighbors = floor(sqrt(n_obs)).
C6_StepsInOrder ==
    DrCalled =>
        LET order == DrOrder(dr_call.use_rep)
            calls == DrCalls
            pre   == dr_call.pre
        IN  \* the steps called are the first ones of the order, in order
            /\ Len(calls) <= Len(order)
            /\ \A k \in 1..Len(calls) : calls[k].step = order[k]
            /\ dr_pc = "done" => Len(calls) = Len(order)
            \* a step is called only after the one before it has returned
            /\ \A k \in 1..Len(dr_log) :
                  IF k % 2 = 1 THEN dr_log[k].event = "call"
                  ELSE /\ dr_log[k].event \in {"return", "raise"}
                       /\ dr_log[k].step = dr_log[k - 1].step
                       /\ dr_log[k].event = "raise" => k = Len(dr_log)
            /\ dr_running <=> (Len(dr_log) % 2 = 1)
            \* PCA if and only if use_rep is None
            /\ (\E k \in 1..Len(calls) : calls[k].step = "pca") => dr_call.use_rep = None
            /\ (dr_call.use_rep = None /\ calls # <<>>) => calls[1].step = "pca"
            \* adata.X
            /\ dr_call.use_rep # None => dr_adata.X = pre.X
            /\ (dr_call.use_rep = None /\ dr_call.layer = None) => dr_adata.X = pre.X
            /\ (dr_call.use_rep = None /\ dr_call.layer # None) =>
                  IF dr_call.layer \in DOMAIN pre.layers
                  THEN dr_adata.X = pre.layers[dr_call.layer]
                  ELSE dr_adata.X = pre.X /\ dr_pc = "raised" /\ dr_log = <<>>
            /\ dr_adata.layers = pre.layers
            \* n_neighbors = floor(sqrt(n_obs))
            /\ \A k \in 1..Len(calls) :
                  calls[k].step = "neighbors" =>
                      LET nn == calls[k].args.n_neighbors
                      IN  /\ nn >= 0
                          /\ nn * nn <= dr_adata.n_obs
                          /\ dr_adata.n_obs < (nn + 1) * (nn + 1)

\* Witness of C6: a run with use_rep None that has finished, on an object
\* whose cells are no square number and whose .X the layer has replaced.
C6_Witness ==
    /\ DrCalled
    /\ dr_pc = "done"
    /\ dr_call.use_rep = None
    /\ dr_call.layer # None
    /\ dr_adata.X # dr_call.pre.X
    /\ dr_adata.n_obs = 8

(***************************************************************************)
(* Specifications                                                          *)
(***************************************************************************)

InitKnee == SubIdle /\ CcIdle /\ DirIdle /\ PlotIdle /\ DrIdle /\ KneeInit

SpecKnee == InitKnee /\ [][KneeNext]_vars

InitSubset == KneeIdle /\ CcIdle /\ DirIdle /\ PlotIdle /\ DrIdle /\ SubInit

SpecSubset == InitSubset /\ [][SubNext]_vars

InitCC == KneeIdle /\ SubIdle /\ DirIdle /\ PlotIdle /\ DrIdle /\ CcInit

SpecCC == InitCC /\ [][CcNext]_vars

InitDir == KneeIdle /\ SubIdle /\ CcIdle /\ PlotIdle /\ DrIdle /\ DirInit

SpecDir == InitDir /\ [][DirNext]_vars

InitPlot == KneeIdle /\ SubIdle /\ CcIdle /\ DirIdle /\ DrIdle /\ PlotIdle

SpecPlot == InitPlot /\ [][PlotNext]_vars

InitDR == KneeIdle /\ SubIdle /\ CcIdle /\ DirIdle /\ PlotIdle /\ DrInit

SpecDR == InitDR /\ [][DrNext]_vars

=============================================================================
